---- MODULE Spec2Model ----
(***************************************************************************)
(* The user controller of the Updog backend                                *)
(* (src/backend/server/controllers/user.js): the six request handlers      *)
(* addUser, getUsersByUsername, authenticateUser, getUserActivity,         *)
(* modifyUserByUsername and deleteUserByUsername, over the users, posts,   *)
(* likedPost and sharedPost tables.                                        *)
(*                                                                         *)
(* Usernames and emails are small integers, passwords and nicknames the    *)
(* strings of the tests.  A handler is one action: the store calls it      *)
(* awaits run to completion before the next request is taken (addUser is   *)
(* also modelled await by await, two invocations at a time).  The          *)
(* variable last holds the request being answered, the users table before  *)
(* it, and what the handler did with the response object; it is Idle       *)
(* between requests.                                                       *)
(***************************************************************************)
EXTENDS Integers, Sequences, FiniteSets

VARIABLES users, nextId, posts, likedPost, sharedPost, nextPostId, last, inflight

vars == <<users, nextId, posts, likedPost, sharedPost, nextPostId, last, inflight>>

(* ------------------------------ bounds -------------------------------- *)

MaxUsers == 2       \* user rows ever created (ids 1..MaxUsers)
NumNames == 2       \* usernames 1..NumNames
NumEmails == 2      \* well-formed emails 1..NumEmails
MaxActivity == 3    \* rows in posts, likedPost and sharedPost together
MaxTime == 2        \* createdAt values 1..MaxTime

Names == 1..NumNames
NoNick == ""                        \* a sign-up without a nickname
Nicks == {NoNick, "nick"}
BadEmail == 0                       \* an address such as 'qweqwewq'
Emails == {BadEmail} \cup (1..NumEmails)
Passwords == {"PASSWORD", "invalid"}
Times == 1..MaxTime

Bodies == [username : Names, nickname : Nicks, email : Emails, password : Passwords]
NoBody == [username |-> 0, nickname |-> NoNick, email |-> 0, password |-> ""]

\* the fields authenticateUser reads, and those modifyUserByUsername reads
LoginBodies == [username : {0}, nickname : {NoNick}, email : Emails, password : Passwords]
ProfileBodies == [username : {0}, nickname : {"nick"}, email : Emails, password : {"invalid"}]

(* ------------------------- the users table ---------------------------- *)

NoUser == [id |-> 0, username |-> 0, nickname |-> NoNick, email |-> 0, password |-> ""]

\* a lookup by username that finds nothing
findOneByUsernameNever(us, username) == NoUser

\* models.users.findOne({where: {username}}): the first matching row, or null
findOneByUsername(us, username) ==
    LET m == {u \in us : u.username = username}
    IN  IF m = {} THEN NoUser ELSE CHOOSE u \in m : \A v \in m : u.id <= v.id

\* a lookup by email that finds nothing
findOneByEmailNever(us, email) == NoUser

\* models.users.findOne({where: {email}})
findOneByEmail(us, email) ==
    LET m == {u \in us : u.email = email}
    IN  IF m = {} THEN NoUser ELSE CHOOSE u \in m : \A v \in m : u.id <= v.id

\* the model's email validator: create rejects an address that is not one
isEmail(email) == email # BadEmail

\* the password hook of the users model: the stored value is a digest
Hash(password) == "$2b$" \o password

\* user.validatePassword(candidate)
validatePassword(user, candidate) == user.password = Hash(candidate)

\* a row whose email column is filled from the username
createRowWrongEmail(id, body) ==
    [id |-> id, username |-> body.username, nickname |-> body.nickname,
     email |-> body.username, password |-> Hash(body.password)]

\* a row whose password column holds the password as supplied
createRowPlainPassword(id, body) ==
    [id |-> id, username |-> body.username, nickname |-> body.nickname,
     email |-> body.email, password |-> body.password]

\* the row models.users.create persists
createRow(id, body) ==
    [id |-> id, username |-> body.username, nickname |-> body.nickname,
     email |-> body.email, password |-> Hash(body.password)]

\* a destroy whose where clause selects the other rows
destroyRowsOthers(us, username) == {u \in us : u.username = username}

\* models.users.destroy({where: {username}}): the rows left, and the count removed
destroyRows(us, username) == {u \in us : u.username # username}
destroyCount(us, username) == Cardinality({u \in us : u.username = username})

(* --------------------------- auth tokens ------------------------------ *)

NoTok == [sub |-> 0, sig |-> "none"]

\* Authentication.generateAuthToken(user): a signed token carrying the user's id
generateAuthToken(user) == [sub |-> user.id, sig |-> "ok"]

\* the Authorization header: absent, or Bearer <token>
NoAuth == [present |-> FALSE, token |-> NoTok]
Bearer(token) == [present |-> TRUE, token |-> token]

Tokens == [sub : 0..MaxUsers, sig : {"ok"}] \cup {[sub |-> 1, sig |-> "bad"]}
Headers == {NoAuth} \cup {Bearer(t) : t \in Tokens}

\* What Authentication.extractUser can do with a header: decode a signed token
\* to its payload (with or without an id), or fail on a missing or unsigned one,
\* by throwing or by returning nothing.
DecodeOutcomes(h) ==
    IF ~h.present THEN {"throw", "null"}
    ELSE IF h.token.sig # "ok" THEN {"throw", "null"}
    ELSE IF h.token.sub = 0 THEN {"noid"}
    ELSE {"user"}

extractUser(h, o) == [kind |-> o, id |-> IF o = "user" THEN h.token.sub ELSE 0]

(* -------------------------- the response ------------------------------ *)

\* res: the response on the wire (status 0: none yet), the number of send
\* calls made, and whether an exception left the handler
NoRes == [status |-> 0, msg |-> "", authToken |-> NoTok, feed |-> <<>>,
          calls |-> 0, escaped |-> FALSE]

Reply(status, msg) == [status |-> status, msg |-> msg, authToken |-> NoTok, feed |-> <<>>]
ReplyToken(status, msg, tok) == [Reply(status, msg) EXCEPT !.authToken = tok]
ReplyFeed(status, feed) == [Reply(status, "activity") EXCEPT !.feed = feed]

headersSent(r) == r.status # 0

\* res.status(s).send(b) on a response whose headers are not sent yet
send(r, m) ==
    [status |-> m.status, msg |-> m.msg, authToken |-> m.authToken, feed |-> m.feed,
     calls |-> r.calls + 1, escaped |-> r.escaped]

\* the catch block: its own send throws when a response is already out, and
\* that exception leaves the handler
catch(r, m) ==
    IF headersSent(r) THEN [r EXCEPT !.calls = @ + 1, !.escaped = TRUE] ELSE send(r, m)

\* a send inside the try block, c being the catch block's message: on a
\* response already sent the send throws and the catch block runs
trySend(r, m, c) ==
    IF headersSent(r) THEN catch([r EXCEPT !.calls = @ + 1], c) ELSE send(r, m)

(* ------------------------ the activity tables ------------------------- *)

\* models.posts.findAll({where: {author}}), in the table's order
findAllPosts(ps, author) == SelectSeq(ps, LAMBDA p : p.author = author)

\* models.sharedPost.findAll / models.likedPost.findAll ({where: {userID}})
findAllByUserID(rows, userID) == SelectSeq(rows, LAMBDA p : p.userID = userID)

\* Activity.convertToActivity(kind, postId, timestamp)
convertToActivity(kind, postId, timestamp) ==
    [kind |-> kind, postId |-> postId, timestamp |-> timestamp]

postsActivity(ps) ==
    [i \in 1..Len(ps) |-> convertToActivity("POSTED", ps[i].id, ps[i].createdAt)]

\* shares reported under the share row's own id
sharedPostsActivityOwnId(rows) ==
    [i \in 1..Len(rows) |-> convertToActivity("SHARED", rows[i].id, rows[i].createdAt)]

sharedPostsActivity(rows) ==
    [i \in 1..Len(rows) |-> convertToActivity("SHARED", rows[i].postId, rows[i].createdAt)]

likedPostsActivity(rows) ==
    [i \in 1..Len(rows) |-> convertToActivity("LIKED", rows[i].postId, rows[i].createdAt)]

\* the comparator with its test turned round
compareAscending(a, b) == IF a.timestamp > b.timestamp THEN 1 ELSE -1

\* the comparator handed to activity.sort
compare(a, b) == IF a.timestamp < b.timestamp THEN 1 ELSE -1

(* Array.prototype.sort as the runtime (Node, V8) runs it on an array shorter *)
(* than a merge run: the leading run is found and, when it descends under the *)
(* comparator, reversed; the rest is inserted by binary search.  Indices are  *)
(* zero-based as in the engine; w[i + 1] is element i.                         *)

RECURSIVE runEnd(_, _, _)
\* the index after the leading run of w, idx being the next index to look at
runEnd(w, idx, isDescending) ==
    IF idx >= Len(w) THEN idx
    ELSE LET order == compare(w[idx + 1], w[idx])
         IN  IF isDescending /\ order >= 0 THEN idx
             ELSE IF ~isDescending /\ order < 0 THEN idx
             ELSE runEnd(w, idx + 1, isDescending)

reverseRange(w, n) ==
    [i \in 1..Len(w) |-> IF i <= n THEN w[n + 1 - i] ELSE w[i]]

\* <<the array with its leading run made ascending under compare, the run's length>>
countAndMakeRun(w) ==
    IF Len(w) = 1 THEN <<w, 1>>
    ELSE LET isDescending == compare(w[2], w[1]) < 0
             runLength == runEnd(w, 2, isDescending)
         IN  <<IF isDescending THEN reverseRange(w, runLength) ELSE w, runLength>>

RECURSIVE searchLeft(_, _, _, _)
\* the binary search of the insertion: where pivot goes in w[left..right-1]
searchLeft(w, pivot, left, right) ==
    IF left >= right THEN left
    ELSE LET mid == left + ((right - left) \div 2)
             order == compare(pivot, w[mid + 1])
         IN  IF order < 0 THEN searchLeft(w, pivot, left, mid)
             ELSE searchLeft(w, pivot, mid + 1, right)

\* w with element start moved down to index left
insertAt(w, start, left) ==
    [i \in 1..Len(w) |->
        IF i - 1 < left \/ i - 1 > start THEN w[i]
        ELSE IF i - 1 = left THEN w[start + 1]
        ELSE w[i - 1]]

RECURSIVE binaryInsertionSort(_, _)
\* elements 0..start-1 of w are in order; insert elements start..Len(w)-1
binaryInsertionSort(w, start) ==
    IF start >= Len(w) THEN w
    ELSE LET left == searchLeft(w, w[start + 1], 0, start)
         IN  binaryInsertionSort(insertAt(w, start, left), start + 1)

\* activity.sort((a, b) => (a.timestamp < b.timestamp) ? 1 : -1)
sortActivity(activity) ==
    IF Len(activity) < 2 THEN activity
    ELSE LET run == countAndMakeRun(activity)
         IN  binaryInsertionSort(run[1], run[2])

\* the feed of a user: lines 132-158 of getUserActivity
activityOf(userId, ps, liked, shared) ==
    LET pa == postsActivity(findAllPosts(ps, userId))
        sa == sharedPostsActivity(findAllByUserID(shared, userId))
        la == likedPostsActivity(findAllByUserID(liked, userId))
    IN  sortActivity(pa \o la \o sa)

(* ---------------------------- the handlers ---------------------------- *)

\* a handler that never looks for the header
missingTokenUnchecked(h) == FALSE

\* if (!authToken)
missingToken(h) == ~h.present

\* a handler that never looks at the row it found
userMissingUnchecked(u) == FALSE

\* if (!userOfInterest)
userMissing(u) == u = NoUser

\* what a handler leaves behind
Outcome(r, us, nid) == [res |-> r, users |-> us, nextId |-> nid]

Err500 == Reply(500, "error")
Err400 == Reply(400, "Auth token not provided")
Err401 == Reply(401, "Auth token invalid")

addUser(us, nid, body) ==
    LET duplicateUsername == findOneByUsername(us, body.username)
        duplicateEmail == findOneByEmail(us, body.email)
        createUser == createRow(nid, body)
    IN  IF duplicateUsername # NoUser
        THEN Outcome(send(NoRes, Reply(409, "Username already taken")), us, nid)
        ELSE IF duplicateEmail # NoUser
        THEN Outcome(send(NoRes, Reply(409, "Email has already been taken")), us, nid)
        ELSE IF ~isEmail(body.email)
        THEN Outcome(catch(NoRes, Err500), us, nid)
        ELSE Outcome(send(NoRes, ReplyToken(201, "User successfully created",
                                            generateAuthToken(createUser))),
                     us \cup {createUser}, nid + 1)

\* a login that only looks the email up
authenticateUserAnyPassword(us, nid, body) ==
    LET user == findOneByEmail(us, body.email)
    IN  IF user = NoUser
        THEN Outcome(send(NoRes, Reply(401, "Incorrect email or password")), us, nid)
        ELSE Outcome(send(NoRes, ReplyToken(200, "Authentication successful",
                                            generateAuthToken(user))), us, nid)

authenticateUser(us, nid, body) ==
    LET user == findOneByEmail(us, body.email)
    IN  IF user = NoUser \/ ~validatePassword(user, body.password)
        THEN Outcome(send(NoRes, Reply(401, "Incorrect email or password")), us, nid)
        ELSE Outcome(send(NoRes, ReplyToken(200, "Authentication successful",
                                            generateAuthToken(user))), us, nid)

\* the response after the missing-token check, which does not return
afterTokenCheck(h) == IF missingToken(h) THEN send(NoRes, Err400) ELSE NoRes

\* UserDTO.convertToDto(user) throws on a missing user (dto = "throw") or not
getUsersByUsername(us, nid, username, h, o, dto) ==
    LET user == findOneByUsername(us, username)
        r0 == afterTokenCheck(h)
        decodedUser == extractUser(h, o)
    IN  IF decodedUser.kind \in {"throw", "null"}
        THEN Outcome(catch(r0, Err500), us, nid)      \* decodedUser.id of nothing
        ELSE IF decodedUser.id = 0
        THEN Outcome(trySend(r0, Err401, Err500), us, nid)
        ELSE IF user = NoUser /\ dto = "throw"
        THEN Outcome(catch(r0, Err500), us, nid)
        ELSE Outcome(trySend(r0, Reply(200, "dto"), Err500), us, nid)

getUserActivity(us, nid, ps, liked, shared, username, h, o) ==
    LET userOfInterest == findOneByUsername(us, username)
        r0 == afterTokenCheck(h)
        loggedInUser == extractUser(h, o)
    IN  IF loggedInUser.kind = "throw"
        THEN Outcome(catch(r0, Err500), us, nid)
        ELSE IF loggedInUser.kind = "null"
        THEN Outcome(trySend(r0, Err401, Err500), us, nid)
        ELSE IF userOfInterest = NoUser
        THEN Outcome(catch(r0, Err500), us, nid)      \* userOfInterest.id of null
        ELSE Outcome(trySend(r0, ReplyFeed(200, activityOf(userOfInterest.id, ps, liked, shared)),
                             Err500), us, nid)

\* the models the registry holds; models.userOfInterest is not one of them
ModelNames == {"users", "posts", "sharedPost", "likedPost"}

\* Model.update({nickname, email, password}, {where: {username}})
updateRows(us, username, body) ==
    {IF u.username = username
     THEN [u EXCEPT !.nickname = body.nickname, !.email = body.email,
                    !.password = Hash(body.password)]
     ELSE u : u \in us}

\* the model modifyUserByUsername calls update on: models.userOfInterest, and
\* update of a missing model throws.  An update that ran would resolve to an
\* array, which is truthy, so line 209's 500 would not be sent.
updateModel == "userOfInterest"

modifyUserByUsername(us, nid, username, h, o, body) ==
    LET userOfInterest == findOneByUsername(us, username)
        r0 == afterTokenCheck(h)
        loggedInUser == extractUser(h, o)
    IN  IF loggedInUser.kind = "throw"
        THEN Outcome(catch(r0, Err500), us, nid)
        ELSE IF loggedInUser.kind = "null"
        THEN Outcome(trySend(r0, Err401, Err500), us, nid)
        ELSE IF userMissing(userOfInterest)
        THEN Outcome(trySend(r0, Reply(404, "Invalid username."), Err500), us, nid)
        ELSE IF updateModel \notin ModelNames
        THEN Outcome(catch(r0, Err500), us, nid)      \* update of undefined
        ELSE Outcome(trySend(r0, Reply(200, "The profile has been updated."), Err500),
                     updateRows(us, username, body), nid)

deleteUserByUsername(us, nid, username, h, o) ==
    LET userOfInterest == findOneByUsername(us, username)
        r0 == afterTokenCheck(h)
        loggedInUser == extractUser(h, o)
        deleteUser == destroyCount(us, username)
    IN  IF loggedInUser.kind = "throw"
        THEN Outcome(catch(r0, Err500), us, nid)
        ELSE IF loggedInUser.kind = "null"
        THEN Outcome(trySend(r0, Err401, Err500), us, nid)
        ELSE IF userMissing(userOfInterest)
        THEN Outcome(trySend(r0, Reply(404, "Invalid username."), Err500), us, nid)
        ELSE IF deleteUser # 0
        THEN Outcome(trySend(r0, Reply(200, "The user has been deleted."), Err500),
                     destroyRows(us, username), nid)
        ELSE Outcome(trySend(r0, Reply(500, "Failed to destroy the user."), Err500),
                     destroyRows(us, username), nid)

(* ------------------------ state and actions --------------------------- *)

\* no request being answered
Idle == [op |-> "none", username |-> 0, auth |-> NoAuth, body |-> NoBody,
         decoded |-> "none", before |-> {}, res |-> NoRes]

Request(op, username, h, body, o, out) ==
    [op |-> op, username |-> username, auth |-> h, body |-> body,
     decoded |-> o, before |-> users, res |-> out.res]

(* Two addUser invocations in flight (the interleaving specification below): *)
(* where each stands between its awaits, whether a row that conflicts with    *)
(* its body was inserted after its username check (overtaken), which rows    *)
(* were inserted by an overtaken invocation (raced), and whether the users   *)
(* table carries unique indexes on username and email.                       *)
Invocations == {"r1", "r2"}

IdleInvocation == [pc |-> "idle", body |-> NoBody, overtaken |-> FALSE, status |-> 0]

Inflight(unique) ==
    [unique |-> unique, req |-> [r \in Invocations |-> IdleInvocation], raced |-> {}]

NoInflight == Inflight(FALSE)

Init ==
    /\ users = {}
    /\ nextId = 1
    /\ posts = <<>>
    /\ likedPost = <<>>
    /\ sharedPost = <<>>
    /\ nextPostId = 1
    /\ last = Idle
    /\ inflight = NoInflight

\* a request is taken when the one before it has been answered
Serve(op, username, h, body, o, out) ==
    /\ last = Idle
    /\ out.nextId <= MaxUsers + 1
    /\ users' = out.users
    /\ nextId' = out.nextId
    /\ last' = Request(op, username, h, body, o, out)
    /\ UNCHANGED <<posts, likedPost, sharedPost, nextPostId, inflight>>

AddUser ==
    \E body \in Bodies :
        Serve("addUser", body.username, NoAuth, body, "none", addUser(users, nextId, body))

AuthenticateUser ==
    \E body \in LoginBodies :
        Serve("authenticateUser", 0, NoAuth, body, "none",
              authenticateUser(users, nextId, body))

GetUsersByUsername ==
    \E username \in Names, h \in Headers, dto \in {"ok", "throw"} :
        \E o \in DecodeOutcomes(h) :
            Serve("getUsersByUsername", username, h, NoBody, o,
                  getUsersByUsername(users, nextId, username, h, o, dto))

GetUserActivity ==
    \E username \in Names, h \in Headers :
        \E o \in DecodeOutcomes(h) :
            Serve("getUserActivity", username, h, NoBody, o,
                  getUserActivity(users, nextId, posts, likedPost, sharedPost,
                                  username, h, o))

ModifyUserByUsername ==
    \E username \in Names, h \in Headers, body \in ProfileBodies :
        \E o \in DecodeOutcomes(h) :
            Serve("modifyUserByUsername", username, h, body, o,
                  modifyUserByUsername(users, nextId, username, h, o, body))

DeleteUserByUsername ==
    \E username \in Names, h \in Headers :
        \E o \in DecodeOutcomes(h) :
            Serve("deleteUserByUsername", username, h, NoBody, o,
                  deleteUserByUsername(users, nextId, username, h, o))

\* the handler has returned and the response has gone out
EndRequest ==
    /\ last # Idle
    /\ last' = Idle
    /\ UNCHANGED <<users, nextId, posts, likedPost, sharedPost, nextPostId, inflight>>

Next ==
    \/ AddUser
    \/ AuthenticateUser
    \/ GetUsersByUsername
    \/ GetUserActivity
    \/ ModifyUserByUsername
    \/ DeleteUserByUsername
    \/ EndRequest

Spec == Init /\ [][Next]_vars

(* The activity feed: two registered users, and the posts, likes and shares  *)
(* that the post controllers write.                                           *)

activityRows == Len(posts) + Len(likedPost) + Len(sharedPost)

CreatePost ==
    \E u \in users, t \in Times :
        /\ last = Idle
        /\ activityRows < MaxActivity
        /\ posts' = Append(posts, [id |-> nextPostId, author |-> u.id, createdAt |-> t])
        /\ nextPostId' = nextPostId + 1
        /\ UNCHANGED <<users, nextId, likedPost, sharedPost, last, inflight>>

LikePost ==
    \E u \in users, t \in Times, i \in 1..Len(posts) :
        /\ last = Idle
        /\ activityRows < MaxActivity
        /\ likedPost' = Append(likedPost, [id |-> Len(likedPost) + 1, userID |-> u.id,
                                           postId |-> posts[i].id, createdAt |-> t])
        /\ UNCHANGED <<users, nextId, posts, sharedPost, nextPostId, last, inflight>>

SharePost ==
    \E u \in users, t \in Times, i \in 1..Len(posts) :
        /\ last = Idle
        /\ activityRows < MaxActivity
        /\ sharedPost' = Append(sharedPost, [id |-> Len(sharedPost) + 1, userID |-> u.id,
                                             postId |-> posts[i].id, createdAt |-> t])
        /\ UNCHANGED <<users, nextId, posts, likedPost, nextPostId, last, inflight>>

\* the users table after two sign-ups
InitActivity ==
    LET b1 == [username |-> 1, nickname |-> NoNick, email |-> 1, password |-> "PASSWORD"]
        b2 == [username |-> 2, nickname |-> NoNick, email |-> 2, password |-> "PASSWORD"]
        first == addUser({}, 1, b1)
        second == addUser(first.users, first.nextId, b2)
    IN  /\ users = second.users
        /\ nextId = second.nextId
        /\ posts = <<>>
        /\ likedPost = <<>>
        /\ sharedPost = <<>>
        /\ nextPostId = 1
        /\ last = Idle
        /\ inflight = NoInflight

NextActivity ==
    \/ CreatePost
    \/ LikePost
    \/ SharePost
    \/ GetUserActivity
    \/ EndRequest

SpecActivity == InitActivity /\ [][NextActivity]_vars

(* addUser await by await: the two lookups and the insert are three store     *)
(* calls, and another invocation may run between any two of them.             *)

\* a sign-up, one with its username and one with its email
RaceBodies ==
    {[username |-> 1, nickname |-> NoNick, email |-> 1, password |-> "PASSWORD"],
     [username |-> 1, nickname |-> NoNick, email |-> 2, password |-> "PASSWORD"],
     [username |-> 2, nickname |-> NoNick, email |-> 1, password |-> "PASSWORD"]}

Conflicts(row, body) == row.username = body.username \/ row.email = body.email

\* the invocation r moves to pc with a response status (0: none yet)
Step(r, pc, body, status) ==
    [inflight.req EXCEPT ![r] = [@ EXCEPT !.pc = pc, !.body = body, !.status = status]]

\* lines 10-19: the request arrives, the username lookup, and the 409
AddUserFindUsername(r) ==
    \E body \in RaceBodies :
        /\ inflight.req[r].pc = "idle"
        /\ inflight' = [inflight EXCEPT !.req =
              IF findOneByUsername(users, body.username) # NoUser
              THEN Step(r, "done", body, 409)
              ELSE Step(r, "findEmail", body, 0)]
        /\ UNCHANGED <<users, nextId, posts, likedPost, sharedPost, nextPostId, last>>

\* lines 21-30: the email lookup, and the 409
AddUserFindEmail(r) ==
    LET body == inflight.req[r].body
    IN  /\ inflight.req[r].pc = "findEmail"
        /\ inflight' = [inflight EXCEPT !.req =
              IF findOneByEmail(users, body.email) # NoUser
              THEN Step(r, "done", body, 409)
              ELSE Step(r, "create", body, 0)]
        /\ UNCHANGED <<users, nextId, posts, likedPost, sharedPost, nextPostId, last>>

\* an invocation past its username lookup, or past its email lookup, that a
\* new row conflicts with
Overtakes(row, q) ==
    \/ q.pc \in {"findEmail", "create"} /\ row.username = q.body.username
    \/ q.pc = "create" /\ row.email = q.body.email

\* lines 32-45: the insert, and the 201; a store with unique indexes rejects a
\* conflicting row, create throws and the catch block answers 500
AddUserCreate(r) ==
    LET body == inflight.req[r].body
        createUser == createRow(nextId, body)
        rejected == \/ ~isEmail(body.email)
                    \/ inflight.unique /\ \E u \in users : Conflicts(u, body)
    IN  /\ inflight.req[r].pc = "create"
        /\ nextId <= MaxUsers
        /\ IF rejected
           THEN /\ inflight' = [inflight EXCEPT !.req = Step(r, "done", body, 500)]
                /\ UNCHANGED <<users, nextId>>
           ELSE /\ users' = users \cup {createUser}
                /\ nextId' = nextId + 1
                /\ inflight' =
                     [inflight EXCEPT
                        !.raced = IF inflight.req[r].overtaken THEN @ \cup {createUser.id} ELSE @,
                        !.req = [q \in Invocations |->
                                   IF q = r THEN Step(r, "done", body, 201)[r]
                                   ELSE IF Overtakes(createUser, inflight.req[q])
                                   THEN [inflight.req[q] EXCEPT !.overtaken = TRUE]
                                   ELSE inflight.req[q]]]
        /\ UNCHANGED <<posts, likedPost, sharedPost, nextPostId, last>>

\* the handler returns
AddUserReturn(r) ==
    /\ inflight.req[r].pc = "done"
    /\ inflight' = [inflight EXCEPT !.req[r] = IdleInvocation]
    /\ UNCHANGED <<users, nextId, posts, likedPost, sharedPost, nextPostId, last>>

InitRace ==
    /\ users = {}
    /\ nextId = 1
    /\ posts = <<>>
    /\ likedPost = <<>>
    /\ sharedPost = <<>>
    /\ nextPostId = 1
    /\ last = Idle
    /\ \E unique \in BOOLEAN : inflight = Inflight(unique)

NextRace ==
    \E r \in Invocations :
        \/ AddUserFindUsername(r)
        \/ AddUserFindEmail(r)
        \/ AddUserCreate(r)
        \/ AddUserReturn(r)

SpecRace == InitRace /\ [][NextRace]_vars

(* ---------------------------- properties ------------------------------ *)

Guarded == {"getUsersByUsername", "getUserActivity",
            "modifyUserByUsername", "deleteUserByUsername"}
Mutating == {"modifyUserByUsername", "deleteUserByUsername"}

\* the rows the request's target username named before the request
TargetRows == {u \in last.before : u.username = last.username}

\* the token of a response decodes to this id
DecodesTo(tok, id) ==
    /\ DecodeOutcomes(Bearer(tok)) = {"user"}
    /\ extractUser(Bearer(tok), "user").id = id

\* C1: an update or delete request without an Authorization header gets 400
\* 'Auth token not provided' and leaves the users table as it was, whether the
\* target username exists or not.
C1_NoTokenRejected ==
    (last.op \in Mutating /\ ~last.auth.present)
        => /\ last.res.status = 400
           /\ last.res.msg = "Auth token not provided"
           /\ users = last.before

C1_Witness ==
    /\ last.op = "deleteUserByUsername"
    /\ ~last.auth.present
    /\ TargetRows # {}
    /\ last.res.status = 400

\* C2: in each of the four token-guarded handlers a token that fails to decode,
\* or decodes to no identity, is answered 401 'Auth token invalid' and the users
\* table is unchanged.
C2_InvalidTokenIs401 ==
    (last.op \in Guarded /\ last.auth.present /\ last.decoded \in {"throw", "null", "noid"})
        => /\ last.res.status = 401
           /\ last.res.msg = "Auth token invalid"
           /\ users = last.before

\* C3: authenticateUser answers 200 with a token for the matched user's id exactly
\* when a row has the given email and the given password verifies against it;
\* otherwise it answers 401 'Incorrect email or password' without a token.
C3_Authenticate ==
    last.op = "authenticateUser" =>
        LET match == {u \in last.before :
                        u.email = last.body.email /\ validatePassword(u, last.body.password)}
        IN  /\ match # {} =>
                /\ last.res.status = 200
                /\ \A u \in match : DecodesTo(last.res.authToken, u.id)
            /\ match = {} =>
                /\ last.res.status = 401
                /\ last.res.msg = "Incorrect email or password"
                /\ last.res.authToken = NoTok
            /\ users = last.before

C3_Witness ==
    /\ last.op = "authenticateUser"
    /\ last.res.status = 200
    /\ Cardinality(last.before) = 2

\* C4: addUser with a username already in the table answers 409 'Username already
\* taken'; with a fresh username and an email already in the table, 409 'Email has
\* already been taken'; in both cases no row is created.
C4_DuplicateRejected ==
    last.op = "addUser" =>
        LET nameTaken == \E u \in last.before : u.username = last.body.username
            emailTaken == \E u \in last.before : u.email = last.body.email
        IN  /\ nameTaken =>
                /\ last.res.status = 409
                /\ last.res.msg = "Username already taken"
                /\ users = last.before
            /\ (~nameTaken /\ emailTaken) =>
                /\ last.res.status = 409
                /\ last.res.msg = "Email has already been taken"
                /\ users = last.before

C4_Witness ==
    /\ last.op = "addUser"
    /\ \A u \in last.before : u.username # last.body.username
    /\ \E u \in last.before : u.email = last.body.email
    /\ last.res.status = 409

\* C5: an update or delete request with a valid token and a target username that
\* names no row gets 404 'Invalid username.' and leaves the users table as it was.
C5_UnknownTarget404 ==
    (last.op \in Mutating /\ last.decoded = "user" /\ TargetRows = {})
        => /\ last.res.status = 404
           /\ last.res.msg = "Invalid username."
           /\ users = last.before

C5_Witness ==
    /\ last.op = "deleteUserByUsername"
    /\ last.decoded = "user"
    /\ TargetRows = {}
    /\ last.before # {}
    /\ last.res.status = 404

\* C6: an update request with a valid token and an existing target applies the
\* supplied nickname, email and password to the target row and answers 200 'The
\* profile has been updated.'
C6_ModifyApplies ==
    (last.op = "modifyUserByUsername" /\ last.decoded = "user" /\ TargetRows # {})
        => /\ last.res.status = 200
           /\ last.res.msg = "The profile has been updated."
           /\ \E u \in users :
                /\ u.username = last.username
                /\ u.nickname = last.body.nickname
                /\ u.email = last.body.email
                /\ validatePassword(u, last.body.password)

\* C7: a delete request with any valid token and an existing target removes the
\* target row and answers 200, whichever identity the token carries: the token of
\* the target and the token of another user give the same outcome from the same
\* table (compared between requests, for every table the controller reaches).
\* The row is removed exactly when the store counts a removed row.
ValidHeaders == {h \in Headers : DecodeOutcomes(h) = {"user"}}

C7_DeleteAnyIdentity ==
    /\ (last.op = "deleteUserByUsername" /\ last.decoded = "user" /\ TargetRows # {})
        => /\ last.res.status = 200
           /\ users = last.before \ TargetRows
           /\ destroyCount(last.before, last.username) # 0
    /\ last = Idle =>
          \A username \in Names, h1 \in ValidHeaders, h2 \in ValidHeaders :
              deleteUserByUsername(users, nextId, username, h1, "user")
                = deleteUserByUsername(users, nextId, username, h2, "user")

C7_Witness ==
    /\ last.op = "deleteUserByUsername"
    /\ last.decoded = "user"
    /\ TargetRows # {}
    /\ \A u \in TargetRows : u.id # last.auth.token.sub
    /\ \E u \in last.before : u.id = last.auth.token.sub
    /\ last.res.status = 200
    /\ users = last.before \ TargetRows

\* the number of indices of a sequence whose element satisfies a test
CountOf(seq, Test(_)) == Cardinality({i \in 1..Len(seq) : Test(seq[i])})

\* C8: for an existing user and a valid token the feed holds exactly one entry
\* per post of the user (POSTED, the post's id and creation time), one per like
\* (LIKED) and one per share (SHARED) of the user, each like and share under the
\* id of the post it refers to and the time of the like or share row.
C8_FeedComplete ==
    (last.op = "getUserActivity" /\ last.decoded = "user" /\ TargetRows # {}) =>
        \A u \in TargetRows :
            /\ last.res.status = 200
            /\ Len(last.res.feed) =
                  CountOf(posts, LAMBDA p : p.author = u.id)
                + CountOf(likedPost, LAMBDA p : p.userID = u.id)
                + CountOf(sharedPost, LAMBDA p : p.userID = u.id)
            /\ \A pid \in 1..MaxActivity, t \in Times :
                /\ CountOf(last.res.feed,
                           LAMBDA e : e = [kind |-> "POSTED", postId |-> pid, timestamp |-> t])
                     = CountOf(posts,
                               LAMBDA p : p.author = u.id /\ p.id = pid /\ p.createdAt = t)
                /\ CountOf(last.res.feed,
                           LAMBDA e : e = [kind |-> "LIKED", postId |-> pid, timestamp |-> t])
                     = CountOf(likedPost,
                               LAMBDA p : p.userID = u.id /\ p.postId = pid /\ p.createdAt = t)
                /\ CountOf(last.res.feed,
                           LAMBDA e : e = [kind |-> "SHARED", postId |-> pid, timestamp |-> t])
                     = CountOf(sharedPost,
                               LAMBDA p : p.userID = u.id /\ p.postId = pid /\ p.createdAt = t)

C8_Witness ==
    /\ last.op = "getUserActivity"
    /\ last.decoded = "user"
    /\ last.res.status = 200
    /\ {last.res.feed[i].kind : i \in 1..Len(last.res.feed)} = {"POSTED", "SHARED"}
    /\ \A u \in TargetRows :
          /\ \E i \in 1..Len(sharedPost) :
                sharedPost[i].userID = u.id /\ sharedPost[i].id # sharedPost[i].postId
          /\ \E i \in 1..Len(sharedPost) : sharedPost[i].userID # u.id

\* C9: the feed is ordered most recent first: no entry has a smaller timestamp
\* than the entry after it.
C9_FeedDescending ==
    (last.op = "getUserActivity" /\ last.res.status = 200) =>
        \A i \in 1..(Len(last.res.feed) - 1) :
            last.res.feed[i].timestamp >= last.res.feed[i + 1].timestamp

C9_Witness ==
    /\ last.op = "getUserActivity"
    /\ last.res.status = 200
    /\ Len(last.res.feed) = 3
    /\ last.res.feed[1].kind = "SHARED"
    /\ last.res.feed[1].timestamp > last.res.feed[3].timestamp

\* the row a sign-up added
NewRows == users \ last.before

C13_OneResponse ==
    last # Idle =>
        /\ last.res.calls = 1
        /\ ~last.res.escaped
        /\ last.res.status # 0

\* the place of an entry's kind in the concatenation
KindRank(kind) == CASE kind = "POSTED" -> 1 [] kind = "LIKED" -> 2 [] OTHER -> 3

\* C14: entries of the feed with equal timestamps keep the order of the
\* concatenation: POSTED before LIKED before SHARED.
C14_TiesKeepOrder ==
    (last.op = "getUserActivity" /\ last.res.status = 200) =>
        \A i, j \in 1..Len(last.res.feed) :
            (i < j /\ last.res.feed[i].timestamp = last.res.feed[j].timestamp)
                => KindRank(last.res.feed[i].kind) <= KindRank(last.res.feed[j].kind)

\* two rows of the users table with one username or one email
Duplicates ==
    {pair \in users \X users :
        /\ pair[1].id < pair[2].id
        /\ pair[1].username = pair[2].username \/ pair[1].email = pair[2].email}

\* C12: the duplicate checks and the insert of addUser are not atomic.  Two
\* rows with one username or one email arise only from an invocation that a
\* conflicting insert overtook between its lookup and its own insert, and only
\* when the store has no unique index to reject the second insert; an invocation
\* that reaches its insert unovertaken inserts no duplicate.
C12_DuplicatesOnlyByRace ==
    /\ \A pair \in Duplicates : pair[2].id \in inflight.raced /\ ~inflight.unique
    /\ inflight.unique => Duplicates = {}
    /\ \A r \in Invocations :
          (inflight.req[r].pc = "create" /\ ~inflight.req[r].overtaken)
              => \A u \in users : ~Conflicts(u, inflight.req[r].body)

\* both invocations answered 201 for one username, and both rows are stored
C12_Witness ==
    /\ \A r \in Invocations : inflight.req[r].pc = "done" /\ inflight.req[r].status = 201
    /\ inflight.req["r1"].body.username = inflight.req["r2"].body.username
    /\ \E pair \in Duplicates : pair[1].username = pair[2].username

====
